---- MODULE Spec2Model ----
\* Model of appy.py: the GFS run-time resolver (get_latest_gfs_time), the
\* retrieval address built in load_dataset, and the Streamlit script that is
\* re-executed top to bottom on every render.
EXTENDS Integers, Sequences, FiniteSets, TLC

VARIABLES
    \* --- resolver harness: the pure function applied to a drawn instant ---
    now_in,      \* the UTC instant handed to the resolver (minutes since 0001-01-01T00:00)
    step,        \* position of the harness
    res,         \* get_latest_gfs_time() at now_in
    res_later,   \* get_latest_gfs_time() at now_in + 6h
    urls,        \* addresses built from res, one per build
    \* --- the dashboard script ---
    clock,       \* the wall clock (UTC), minutes since 0001-01-01T00:00
    pc,          \* position of the script within the current render
    renders,     \* number of renders started
    ticks,       \* number of clock advances
    now_read,    \* the clock readings taken by the current render
    run_date,    \* module-level run_date of the current render
    run_hour,    \* module-level run_hour of the current render
    sidebar,     \* text of st.sidebar.info
    parameter,   \* value of the selectbox
    forecast_hour, \* value of the slider
    cache,       \* st.cache_data store of load_dataset: set of [key, ds]
    requests,    \* addresses opened over the network, in order: [render, url]
    load_calls,  \* argument pairs passed to load_dataset in the current render
    load_result, \* outcome of the try block around load_dataset
    ds,          \* the dataset bound to ds in the current render
    messages,    \* st.success / st.error / st.warning elements of the current render
    gdf,         \* whether the shapefile was loaded in the current render
    label,       \* the field label chosen for the map title
    header,      \* the right-hand map header text
    shown,       \* whether st.pyplot displayed the figure in the current render
    history      \* every resolver invocation so far: [now, date, hour, cached]

harness_vars == <<now_in, step, res, res_later, urls>>
script_vars == <<clock, pc, renders, ticks, now_read, run_date, run_hour, sidebar,
                 parameter, forecast_hour, cache, requests, load_calls,
                 load_result, ds, messages, gdf, label, header, shown, history>>
vars == <<now_in, step, res, res_later, urls,
          clock, pc, renders, ticks, now_read, run_date, run_hour, sidebar,
          parameter, forecast_hour, cache, requests, load_calls,
          load_result, ds, messages, gdf, label, header, shown, history>>

-----------------------------------------------------------------------------
\* Bounds

\* hours drawn on either side of each anchor midnight
Span == 30
\* renders of the dashboard in one behaviour
MaxRenders == 2
\* clock advances in one behaviour
MaxTicks == 3

-----------------------------------------------------------------------------
\* Program constants

\* variant: a latency of three hours
LatencyHours_three == 6 \div 2

LatencyHours == 6

MinutesPerHour == 60

MinutesPerDay == 1440

\* days in 400, 100 and 4 years of the proleptic Gregorian calendar
DI400Y == 146097

DI100Y == 36524

DI4Y == 1461

-----------------------------------------------------------------------------
\* datetime: calendar arithmetic

IsLeap(y) == y % 4 = 0 /\ (y % 100 # 0 \/ y % 400 = 0)

DAYS_IN_MONTH == <<31, 28, 31, 30, 31, 30, 31, 31, 30, 31, 30, 31>>

DAYS_BEFORE_MONTH == <<0, 31, 59, 90, 120, 151, 181, 212, 243, 273, 304, 334>>

DaysBeforeYear(year) ==
    LET y == year - 1
    IN  y * 365 + (y \div 4) - (y \div 100) + (y \div 400)

DaysBeforeMonth(year, month) ==
    DAYS_BEFORE_MONTH[month] + (IF month > 2 /\ IsLeap(year) THEN 1 ELSE 0)

Ymd2Ord(year, month, day) ==
    DaysBeforeYear(year) + DaysBeforeMonth(year, month) + day

\* ordinal -> (year, month, day), as datetime computes it
Ord2Ymd(ordinal) ==
    LET n0   == ordinal - 1
        n400 == n0 \div DI400Y
        r400 == n0 % DI400Y
        n100 == r400 \div DI100Y
        r100 == r400 % DI100Y
        n4   == r100 \div DI4Y
        r4   == r100 % DI4Y
        n1   == r4 \div 365
        n    == r4 % 365
        year == n400 * 400 + 1 + n100 * 100 + n4 * 4 + n1
        leapyear == n1 = 3 /\ (n4 # 24 \/ n100 = 3)
        m0   == (n + 50) \div 32
        p0   == DAYS_BEFORE_MONTH[m0] + (IF m0 > 2 /\ leapyear THEN 1 ELSE 0)
        month == IF p0 > n THEN m0 - 1 ELSE m0
        preceding == IF p0 > n
                     THEN p0 - (DAYS_IN_MONTH[month]
                                + (IF month = 2 /\ leapyear THEN 1 ELSE 0))
                     ELSE p0
    IN  IF n1 = 4 \/ n100 = 4
        THEN [year |-> year - 1, month |-> 12, day |-> 31]
        ELSE [year |-> year, month |-> month, day |-> n - preceding + 1]

\* a datetime value from a count of minutes since 0001-01-01T00:00
DatetimeOf(minutes) ==
    LET ymd == Ord2Ymd((minutes \div MinutesPerDay) + 1)
    IN  [year |-> ymd.year, month |-> ymd.month, day |-> ymd.day,
         hour |-> (minutes % MinutesPerDay) \div MinutesPerHour,
         minute |-> minutes % MinutesPerHour]

\* the count of minutes of a datetime value
MinutesOf(dt) ==
    (Ymd2Ord(dt.year, dt.month, dt.day) - 1) * MinutesPerDay
        + dt.hour * MinutesPerHour + dt.minute

\* datetime.utcnow() for a clock reading
utcnow(clk) == DatetimeOf(clk)

\* datetime - timedelta(hours = h)
SubHours(dt, h) == DatetimeOf(MinutesOf(dt) - h * MinutesPerHour)

-----------------------------------------------------------------------------
\* strftime and string formatting

Digits == <<"0", "1", "2", "3", "4", "5", "6", "7", "8", "9">>

RECURSIVE ZeroPad(_, _)
\* the decimal digits of n, zero-padded on the left to at least width
ZeroPad(n, width) ==
    IF n < 10 /\ width <= 1
    THEN Digits[n + 1]
    ELSE ZeroPad(n \div 10, width - 1) \o Digits[(n % 10) + 1]

\* variant: now.strftime('%d%m%Y')
StrftimeDmy(dt) == ZeroPad(dt.day, 2) \o ZeroPad(dt.month, 2) \o ZeroPad(dt.year, 4)

\* now.strftime('%Y%m%d')
StrftimeYmd(dt) == ZeroPad(dt.year, 4) \o ZeroPad(dt.month, 2) \o ZeroPad(dt.day, 2)

\* variant: cycle hours without zero padding
CYCLES_unpadded == <<"0", "6", "12", "18">>

CYCLES == <<"00", "06", "12", "18">>

\* list indexing: an index outside the list raises IndexError
Subscript(list, i) ==
    IF i >= 0 /\ i < Len(list) THEN list[i + 1] ELSE "IndexError"

-----------------------------------------------------------------------------
\* get_latest_gfs_time and the address of load_dataset

\* variant: right-closed windows, hour 6 still belongs to cycle "00"
get_latest_gfs_time_closed(clk) ==
    LET now == SubHours(utcnow(clk), LatencyHours)
        gfs_date == StrftimeYmd(now)
        gfs_hour == Subscript(CYCLES, IF now.hour % 6 = 0 /\ now.hour > 0
                                      THEN (now.hour \div 6) - 1
                                      ELSE now.hour \div 6)
    IN  [date |-> gfs_date, hour |-> gfs_hour, raised |-> gfs_hour = "IndexError"]

\* variant: the date is taken before the latency is subtracted
get_latest_gfs_time_date_of_now(clk) ==
    LET now == SubHours(utcnow(clk), LatencyHours)
        gfs_date == StrftimeYmd(utcnow(clk))
        gfs_hour == Subscript(CYCLES, now.hour \div 6)
    IN  [date |-> gfs_date, hour |-> gfs_hour, raised |-> gfs_hour = "IndexError"]

\* variant: the offset is the slider's value instead of the fixed latency
get_latest_gfs_time_slider(clk) ==
    LET now == SubHours(utcnow(clk), forecast_hour)
        gfs_date == StrftimeYmd(now)
        gfs_hour == Subscript(CYCLES, now.hour \div 6)
    IN  [date |-> gfs_date, hour |-> gfs_hour, raised |-> gfs_hour = "IndexError"]

get_latest_gfs_time(clk) ==
    LET now == SubHours(utcnow(clk), LatencyHours)
        gfs_date == StrftimeYmd(now)
        gfs_hour == Subscript(CYCLES, now.hour \div 6)
    IN  [date |-> gfs_date, hour |-> gfs_hour, raised |-> gfs_hour = "IndexError"]

\* variant: the 3-hourly product in the final path segment
dataset_url_0p25(rd, rh) ==
    "https://nomads.ncep.noaa.gov/dods/gfs_0p25_1hr/gfs" \o rd
        \o "/gfs_0p25_" \o rh \o "z"

dataset_url(rd, rh) ==
    "https://nomads.ncep.noaa.gov/dods/gfs_0p25_1hr/gfs" \o rd
        \o "/gfs_0p25_1hr_" \o rh \o "z"

-----------------------------------------------------------------------------
\* Resolver harness: the resolver and the address builder applied to one
\* drawn instant.

\* midnights (as proleptic ordinals) around which instants are drawn:
\* 2024-01-01, 2024-01-02, 2024-03-01, 2023-03-01, 2000-03-01, 2100-03-01
Anchors == {738886, 738887, 738946, 738580, 730180, 766704}

\* minutes past the hour at which instants are drawn
MinuteOffsets == {0, 29, 30, 59}

Instants ==
    { (a - 1) * MinutesPerDay + h * MinutesPerHour + j :
        a \in Anchors, h \in (0 - Span)..Span, j \in MinuteOffsets }

NoRun == [date |-> "", hour |-> "", raised |-> FALSE]

NoDataset == [url |-> ""]

OPTIONS == <<"Curah Hujan per jam (pratesfc)",
             "Suhu Permukaan (tmp2m)",
             "Angin Permukaan (ugrd10m & vgrd10m)",
             "Tekanan Permukaan Laut (prmslmsl)">>

ScriptIdle ==
    /\ pc = "idle"
    /\ renders = 0
    /\ ticks = 0
    /\ now_read = <<>>
    /\ run_date = ""
    /\ run_hour = ""
    /\ sidebar = ""
    /\ parameter = OPTIONS[1]
    /\ forecast_hour = 6
    /\ cache = {}
    /\ requests = <<>>
    /\ load_calls = <<>>
    /\ load_result = "none"
    /\ ds = NoDataset
    /\ messages = <<>>
    /\ gdf = FALSE
    /\ label = ""
    /\ header = ""
    /\ shown = FALSE
    /\ history = <<>>

HarnessIdle ==
    /\ step = "off"
    /\ res = NoRun
    /\ res_later = NoRun
    /\ urls = <<>>

InitResolver ==
    /\ now_in \in Instants
    /\ step = "start"
    /\ res = NoRun
    /\ res_later = NoRun
    /\ urls = <<>>
    /\ clock = 0
    /\ ScriptIdle

CallResolve ==
    /\ step = "start"
    /\ res' = get_latest_gfs_time(now_in)
    /\ step' = IF res'.raised THEN "raised" ELSE "resolved"
    /\ UNCHANGED <<now_in, res_later, urls>>
    /\ UNCHANGED script_vars

CallResolveLater ==
    /\ step = "resolved"
    /\ res_later' = get_latest_gfs_time(now_in + LatencyHours * MinutesPerHour)
    /\ step' = IF res_later'.raised THEN "raised" ELSE "later"
    /\ UNCHANGED <<now_in, res, urls>>
    /\ UNCHANGED script_vars

BuildAddress ==
    /\ step \in {"later", "built"}
    /\ Len(urls) < 2
    /\ urls' = Append(urls, dataset_url(res.date, res.hour))
    /\ step' = "built"
    /\ UNCHANGED <<now_in, res, res_later>>
    /\ UNCHANGED script_vars

NextResolver == CallResolve \/ CallResolveLater \/ BuildAddress

SpecResolver == InitResolver /\ [][NextResolver]_vars

-----------------------------------------------------------------------------
\* Reading results back: digits, dates and run instants

IsDigits(s) ==
    \A i \in 1..Len(s) : \E d \in 1..10 : Digits[d] = SubSeq(s, i, i)

DigitVal(c) == (CHOOSE d \in 1..10 : Digits[d] = c) - 1

RECURSIVE ParseNat(_)
ParseNat(s) ==
    IF Len(s) = 0
    THEN 0
    ELSE ParseNat(SubSeq(s, 1, Len(s) - 1)) * 10 + DigitVal(SubSeq(s, Len(s), Len(s)))

\* a run as produced by the resolver is well formed: YYYYMMDD and HH
WellFormed(d, h) ==
    /\ Len(d) = 8 /\ IsDigits(d)
    /\ Len(h) = 2 /\ IsDigits(h)
    /\ ParseNat(SubSeq(d, 5, 6)) \in 1..12
    /\ ParseNat(SubSeq(d, 7, 8)) \in 1..31

\* the ordinal of the calendar day written as YYYYMMDD
DayOfDate(d) ==
    Ymd2Ord(ParseNat(SubSeq(d, 1, 4)), ParseNat(SubSeq(d, 5, 6)), ParseNat(SubSeq(d, 7, 8)))

\* the initialization instant of run (d, h): d at h:00 UTC, in minutes
RunInstant(d, h) == (DayOfDate(d) - 1) * 1440 + ParseNat(h) * 60

\* the effective instant of the harness input: now - 6h, in minutes
Effective == now_in - 6 * 60

EffectiveHour == (Effective % 1440) \div 60

Resolved == step \in {"resolved", "later", "built"}

\* 2024-01-02T05:00Z and 2024-01-02T12:30Z
Example0500 == (738887 - 1) * 1440 + 5 * 60

Example1230 == (738887 - 1) * 1440 + 12 * 60 + 30

\* C1: for every drawn instant the resolver returns without raising, the
\* lookup index is in 0..3 and the cycle hour is one of "00", "06", "12", "18".
C1_CycleHourCanonical ==
    /\ step # "raised"
    /\ Resolved =>
        /\ ~res.raised
        /\ EffectiveHour \div 6 \in 0..3
        /\ res.hour \in {"00", "06", "12", "18"}

C1_Witness == step = "resolved" /\ res.hour = "18" /\ EffectiveHour = 23

\* C2: the cycle hour is the opening hour of the half-open 6-hour window that
\* contains the effective hour; hours 6, 12 and 18 open their own window; and
\* 2024-01-02T12:30Z resolves to "06".
C2_HalfOpenWindows ==
    Resolved =>
        /\ EffectiveHour \in 0..5   => res.hour = "00"
        /\ EffectiveHour \in 6..11  => res.hour = "06"
        /\ EffectiveHour \in 12..17 => res.hour = "12"
        /\ EffectiveHour \in 18..23 => res.hour = "18"
        /\ now_in = Example1230 => res.hour = "06"

C2_Witness ==
    /\ step = "resolved"
    /\ EffectiveHour = 6 /\ Effective % 60 = 0
    /\ res.hour = "06"

\* C3: the run date is the calendar date of the effective instant, also when
\* subtracting the latency crosses midnight, a month end or a year end; the
\* cycle hour belongs to that same instant; 2024-01-02T05:00Z resolves to
\* 2024-01-01 cycle "18".
C3_DateOfEffectiveInstant ==
    Resolved =>
        /\ WellFormed(res.date, res.hour)
        /\ DayOfDate(res.date) = (Effective \div 1440) + 1
        /\ ParseNat(SubSeq(res.date, 7, 8))
             <= DAYS_IN_MONTH[ParseNat(SubSeq(res.date, 5, 6))]
                  + (IF IsLeap(ParseNat(SubSeq(res.date, 1, 4))) THEN 1 ELSE 0)
        /\ ParseNat(res.hour) = 6 * (EffectiveHour \div 6)
        /\ now_in = Example0500 => res.date = "20240101" /\ res.hour = "18"

\* the latency crossed a year end: now is in 2024, the run is dated 2023-12-31
C3_Witness ==
    /\ step = "resolved"
    /\ now_in \div 1440 = 738886 - 1
    /\ res.date = "20231231"
    /\ res.hour = "18"

\* C4: the selected run is past its latency and is the most recent such run:
\* its initialization instant T satisfies T <= now - 6h < T + 6h, so it is at
\* least 6 and less than 12 hours old.
C4_PublishedAndMostRecent ==
    Resolved =>
        /\ WellFormed(res.date, res.hour)
        /\ RunInstant(res.date, res.hour) <= Effective
        /\ Effective < RunInstant(res.date, res.hour) + 6 * 60
        /\ now_in - RunInstant(res.date, res.hour) >= 6 * 60
        /\ now_in - RunInstant(res.date, res.hour) < 12 * 60

\* a run exactly 6 hours old is selected
C4_Witness ==
    /\ step = "resolved"
    /\ WellFormed(res.date, res.hour)
    /\ now_in - RunInstant(res.date, res.hour) = 6 * 60

\* (date, cycleHour) of a is lexicographically at most that of b
RunLeq(a, b) ==
    \/ ParseNat(a.date) < ParseNat(b.date)
    \/ ParseNat(a.date) = ParseNat(b.date) /\ ParseNat(a.hour) <= ParseNat(b.hour)

\* C5: the run resolved at now + 6h is never smaller, in the lexicographic
\* order on (date, cycleHour), than the run resolved at now.
C5_Monotone ==
    step \in {"later", "built"} =>
        /\ WellFormed(res.date, res.hour)
        /\ WellFormed(res_later.date, res_later.hour)
        /\ RunLeq(res, res_later)

\* the 6-hour advance crossed a year end
C5_Witness ==
    /\ step = "later"
    /\ res.date = "20231231" /\ res.hour = "18"
    /\ res_later.date = "20240101" /\ res_later.hour = "00"

\* C6: the address is exactly the fixed prefix, the 8-digit date, the segment
\* "/gfs_0p25_1hr_", the 2-digit hour and "z"; 2024-01-02 cycle "06" gives the
\* address ending in gfs20240102/gfs_0p25_1hr_06z; every build from the same
\* run gives the same string.
C6_AddressTemplate ==
    \A i \in 1..Len(urls) :
        /\ Len(res.date) = 8 /\ Len(res.hour) = 2
        /\ Len(urls[i]) = 50 + 8 + 14 + 2 + 1
        /\ SubSeq(urls[i], 1, 50) = "https://nomads.ncep.noaa.gov/dods/gfs_0p25_1hr/gfs"
        /\ SubSeq(urls[i], 51, 58) = res.date
        /\ SubSeq(urls[i], 59, 72) = "/gfs_0p25_1hr_"
        /\ SubSeq(urls[i], 73, 74) = res.hour
        /\ SubSeq(urls[i], 75, 75) = "z"
        /\ (res.date = "20240102" /\ res.hour = "06") =>
              urls[i] = "https://nomads.ncep.noaa.gov/dods/gfs_0p25_1hr/gfs20240102/gfs_0p25_1hr_06z"
        /\ urls[i] = urls[1]

C6_Witness ==
    /\ Len(urls) = 2
    /\ res.date = "20240102"
    /\ res.hour = "06"

-----------------------------------------------------------------------------
\* The dashboard script: one render executes the module top to bottom.

\* "sub in s" on strings
Contains(s, sub) ==
    \E i \in 1..(Len(s) - Len(sub) + 1) : SubSeq(s, i, i + Len(sub) - 1) = sub

\* slider values drawn by the user (of 0, 3, .., 240)
SliderSample == {0, 6}

\* minutes by which the wall clock is seen to advance between two steps
TickSample == {60, 360}

\* clock readings at which the first render may start:
\* 2024-01-02T05:00Z, 2024-01-01T04:30Z, 2024-03-01T05:29Z
StartClocks ==
    { Example0500,
      (738886 - 1) * MinutesPerDay + 4 * MinutesPerHour + 30,
      (738946 - 1) * MinutesPerDay + 5 * MinutesPerHour + 29 }

\* variant: the cache is keyed by the date alone
cache_key_date_only(rd, rh) == <<rd>>

\* the key under which st.cache_data stores a call of load_dataset
cache_key(rd, rh) == <<rd, rh>>

Init ==
    /\ now_in = 0
    /\ HarnessIdle
    /\ clock \in StartClocks
    /\ ScriptIdle

\* the wall clock advances
Tick ==
    /\ ticks < MaxTicks
    /\ \E d \in TickSample : clock' = clock + d
    /\ ticks' = ticks + 1
    /\ UNCHANGED <<pc, renders, now_read, run_date, run_hour, sidebar, parameter,
                   forecast_hour, cache, requests, load_calls, load_result, ds,
                   messages, gdf, label, header, shown, history>>
    /\ UNCHANGED harness_vars

\* Streamlit (re)runs the script: every module-level name is rebound from
\* scratch, the st.cache_data store and the widget values survive
StartRender ==
    /\ pc \in {"idle", "done", "stopped", "crashed"}
    /\ renders < MaxRenders
    /\ renders' = renders + 1
    /\ pc' = "resolve"
    /\ now_read' = <<>>
    /\ run_date' = ""
    /\ run_hour' = ""
    /\ sidebar' = ""
    /\ load_calls' = <<>>
    /\ load_result' = "none"
    /\ ds' = NoDataset
    /\ messages' = <<>>
    /\ gdf' = FALSE
    /\ label' = ""
    /\ header' = ""
    /\ shown' = FALSE
    /\ UNCHANGED <<clock, ticks, parameter, forecast_hour, cache, requests, history>>
    /\ UNCHANGED harness_vars

\* variant: the resolver is memoised, later renders get the first render's run
ResolveRun_memo ==
    /\ pc = "resolve"
    /\ LET r == IF history = <<>>
                THEN get_latest_gfs_time(clock)
                ELSE [date |-> history[1].date, hour |-> history[1].hour, raised |-> FALSE]
       IN  /\ now_read' = Append(now_read, clock)
           /\ history' = Append(history, [now |-> clock, date |-> r.date, hour |-> r.hour,
                                          cached |-> Cardinality(cache)])
           /\ run_date' = r.date
           /\ run_hour' = r.hour
           /\ sidebar' = "GFS: " \o r.date \o " jam " \o r.hour \o "Z"
           /\ pc' = "widgets"
    /\ UNCHANGED <<clock, renders, ticks, parameter, forecast_hour, cache, requests,
                   load_calls, load_result, ds, messages, gdf, label, header, shown>>
    /\ UNCHANGED harness_vars

\* run_date, run_hour = get_latest_gfs_time(); st.sidebar.info(...)
ResolveRun ==
    /\ pc = "resolve"
    /\ LET r == get_latest_gfs_time(clock)
       IN  /\ now_read' = Append(now_read, clock)
           /\ history' = Append(history, [now |-> clock, date |-> r.date, hour |-> r.hour,
                                          cached |-> Cardinality(cache)])
           /\ IF r.raised
              THEN /\ pc' = "crashed"
                   /\ UNCHANGED <<run_date, run_hour, sidebar>>
              ELSE /\ run_date' = r.date
                   /\ run_hour' = r.hour
                   /\ sidebar' = "GFS: " \o r.date \o " jam " \o r.hour \o "Z"
                   /\ pc' = "widgets"
    /\ UNCHANGED <<clock, renders, ticks, parameter, forecast_hour, cache, requests,
                   load_calls, load_result, ds, messages, gdf, label, header, shown>>
    /\ UNCHANGED harness_vars

\* the slider and the selectbox return the user's current choice
Widgets ==
    /\ pc = "widgets"
    /\ \E fh \in SliderSample : forecast_hour' = fh
    /\ \E i \in 1..Len(OPTIONS) : parameter' = OPTIONS[i]
    /\ pc' = "load"
    /\ UNCHANGED <<clock, renders, ticks, now_read, run_date, run_hour, sidebar, cache,
                   requests, load_calls, load_result, ds, messages, gdf, label, header,
                   shown, history>>
    /\ UNCHANGED harness_vars

\* load_dataset(run_date, run_hour) finds its arguments in the cache
LoadCached ==
    /\ pc = "load"
    /\ \E e \in cache :
          /\ e.key = cache_key(run_date, run_hour)
          /\ ds' = e.ds
    /\ load_calls' = Append(load_calls, <<run_date, run_hour>>)
    /\ load_result' = "ok"
    /\ messages' = Append(messages, [kind |-> "success", text |-> "Data GFS berhasil dimuat."])
    /\ pc' = "shapefile"
    /\ UNCHANGED <<clock, renders, ticks, now_read, run_date, run_hour, sidebar, parameter,
                   forecast_hour, cache, requests, gdf, label, header, shown, history>>
    /\ UNCHANGED harness_vars

\* load_dataset(run_date, run_hour) misses the cache and xr.open_dataset succeeds
LoadFetched ==
    /\ pc = "load"
    /\ ~ \E e \in cache : e.key = cache_key(run_date, run_hour)
    /\ LET url == dataset_url(run_date, run_hour)
       IN  /\ requests' = Append(requests, [render |-> renders, url |-> url])
           /\ ds' = [url |-> url]
           /\ cache' = cache \cup {[key |-> cache_key(run_date, run_hour), ds |-> [url |-> url]]}
    /\ load_calls' = Append(load_calls, <<run_date, run_hour>>)
    /\ load_result' = "ok"
    /\ messages' = Append(messages, [kind |-> "success", text |-> "Data GFS berhasil dimuat."])
    /\ pc' = "shapefile"
    /\ UNCHANGED <<clock, renders, ticks, now_read, run_date, run_hour, sidebar, parameter,
                   forecast_hour, gdf, label, header, shown, history>>
    /\ UNCHANGED harness_vars

\* variant: the except branch reports the error but does not call st.stop
LoadFailed_no_stop ==
    /\ pc = "load"
    /\ ~ \E e \in cache : e.key = cache_key(run_date, run_hour)
    /\ requests' = Append(requests, [render |-> renders, url |-> dataset_url(run_date, run_hour)])
    /\ load_calls' = Append(load_calls, <<run_date, run_hour>>)
    /\ load_result' = "raised"
    /\ messages' = Append(messages, [kind |-> "error", text |-> "Gagal memuat data: OSError"])
    /\ pc' = "shapefile"
    /\ UNCHANGED <<clock, renders, ticks, now_read, run_date, run_hour, sidebar, parameter,
                   forecast_hour, cache, ds, gdf, label, header, shown, history>>
    /\ UNCHANGED harness_vars

\* load_dataset(run_date, run_hour) misses the cache and xr.open_dataset raises:
\* st.error, st.stop
LoadFailed ==
    /\ pc = "load"
    /\ ~ \E e \in cache : e.key = cache_key(run_date, run_hour)
    /\ requests' = Append(requests, [render |-> renders, url |-> dataset_url(run_date, run_hour)])
    /\ load_calls' = Append(load_calls, <<run_date, run_hour>>)
    /\ load_result' = "raised"
    /\ messages' = Append(messages, [kind |-> "error", text |-> "Gagal memuat data: OSError"])
    /\ pc' = "stopped"
    /\ UNCHANGED <<clock, renders, ticks, now_read, run_date, run_hour, sidebar, parameter,
                   forecast_hour, cache, ds, gdf, label, header, shown, history>>
    /\ UNCHANGED harness_vars

\* gpd.read_file(...).to_crs(...) succeeds
ShapefileLoaded ==
    /\ pc = "shapefile"
    /\ gdf' = TRUE
    /\ pc' = "select"
    /\ UNCHANGED <<clock, renders, ticks, now_read, run_date, run_hour, sidebar, parameter,
                   forecast_hour, cache, requests, load_calls, load_result, ds, messages,
                   label, header, shown, history>>
    /\ UNCHANGED harness_vars

\* gpd.read_file(...) raises: st.error, st.stop
ShapefileFailed ==
    /\ pc = "shapefile"
    /\ messages' = Append(messages,
          [kind |-> "error",
           text |-> "Gagal memuat shapefile batas kecamatan Nunukan: DriverError"])
    /\ pc' = "stopped"
    /\ UNCHANGED <<clock, renders, ticks, now_read, run_date, run_hour, sidebar, parameter,
                   forecast_hour, cache, requests, load_calls, load_result, ds,
                   gdf, label, header, shown, history>>
    /\ UNCHANGED harness_vars

\* the if/elif chain on parameter
SelectField ==
    /\ pc = "select"
    /\ IF Contains(parameter, "pratesfc")
       THEN label' = "Curah Hujan (mm/jam)" /\ pc' = "plot" /\ UNCHANGED messages
       ELSE IF Contains(parameter, "tmp2m")
       THEN label' = "Suhu Permukaan (C)" /\ pc' = "plot" /\ UNCHANGED messages
       ELSE IF Contains(parameter, "ugrd10m")
       THEN label' = "Kecepatan Angin (knot)" /\ pc' = "plot" /\ UNCHANGED messages
       ELSE IF Contains(parameter, "prmsl")
       THEN label' = "Tekanan Permukaan Laut (hPa)" /\ pc' = "plot" /\ UNCHANGED messages
       ELSE /\ messages' = Append(messages,
                  [kind |-> "warning", text |-> "Parameter tidak dikenali."])
            /\ pc' = "stopped"
            /\ UNCHANGED label
    /\ UNCHANGED <<clock, renders, ticks, now_read, run_date, run_hour, sidebar, parameter,
                   forecast_hour, cache, requests, load_calls, load_result, ds, gdf,
                   header, shown, history>>
    /\ UNCHANGED harness_vars

\* the crop, the valid time and the figure with its header texts
PlotMap ==
    /\ pc = "plot"
    /\ header' = "GFS " \o run_date \o " " \o run_hour \o "Z t+" \o ZeroPad(forecast_hour, 3)
    /\ pc' = "display"
    /\ UNCHANGED <<clock, renders, ticks, now_read, run_date, run_hour, sidebar, parameter,
                   forecast_hour, cache, requests, load_calls, load_result, ds, messages,
                   gdf, label, shown, history>>
    /\ UNCHANGED harness_vars

\* an indexing or plotting call raises: nothing catches it, the script ends
PlotRaised ==
    /\ pc = "plot"
    /\ pc' = "crashed"
    /\ UNCHANGED <<clock, renders, ticks, now_read, run_date, run_hour, sidebar, parameter,
                   forecast_hour, cache, requests, load_calls, load_result, ds, messages,
                   gdf, label, header, shown, history>>
    /\ UNCHANGED harness_vars

\* st.pyplot(fig)
Display ==
    /\ pc = "display"
    /\ shown' = TRUE
    /\ pc' = "done"
    /\ UNCHANGED <<clock, renders, ticks, now_read, run_date, run_hour, sidebar, parameter,
                   forecast_hour, cache, requests, load_calls, load_result, ds, messages,
                   gdf, label, header, history>>
    /\ UNCHANGED harness_vars

Next ==
    \/ Tick
    \/ StartRender
    \/ ResolveRun
    \/ Widgets
    \/ LoadCached
    \/ LoadFetched
    \/ LoadFailed
    \/ ShapefileLoaded
    \/ ShapefileFailed
    \/ SelectField
    \/ PlotMap
    \/ PlotRaised
    \/ Display

Spec == Init /\ [][Next]_vars

-----------------------------------------------------------------------------
\* Properties of the dashboard script

\* the script is past line 28 of the current render
RunBound == pc \notin {"idle", "resolve"}

\* the addresses opened over the network by the current render
RequestsOfRender == { i \in 1..Len(requests) : requests[i].render = renders }

C8_FetchFailureHalts ==
    load_result = "raised" =>
        /\ pc = "stopped"
        /\ Len(now_read) = 1
        /\ load_calls = << <<run_date, run_hour>> >>
        /\ Cardinality(RequestsOfRender) = 1
        /\ \A i \in RequestsOfRender : requests[i].url = dataset_url(run_date, run_hour)
        /\ ds = NoDataset
        /\ \E i \in 1..Len(messages) :
              /\ messages[i].kind = "error"
              /\ Contains(messages[i].text, "Gagal memuat data: ")
        /\ \A i \in 1..Len(messages) : messages[i].kind # "success"
        /\ ~gdf
        /\ label = ""
        /\ header = ""
        /\ ~shown

\* the fetch failed while the cache holds the dataset of an earlier run
C8_Witness ==
    /\ load_result = "raised"
    /\ renders = 2
    /\ \E e \in cache : e.key # <<run_date, run_hour>>

\* C9: the run of a render is the one resolved from that render's own clock
\* reading (one resolution per render), it is the run shown in the sidebar and
\* the one whose address is fetched, whatever earlier renders left in the cache.
C9_RunFreshPerRender ==
    RunBound =>
        /\ Len(history) = renders
        /\ history[renders].now = now_read[1]
        /\ WellFormed(run_date, run_hour)
        /\ RunInstant(run_date, run_hour) <= now_read[1] - 6 * 60
        /\ now_read[1] - 6 * 60 < RunInstant(run_date, run_hour) + 6 * 60
        /\ sidebar = "GFS: " \o run_date \o " jam " \o run_hour \o "Z"
        /\ \A i \in 1..Len(load_calls) : load_calls[i] = <<run_date, run_hour>>
        /\ \A i \in RequestsOfRender :
              requests[i].url
                = "https://nomads.ncep.noaa.gov/dods/gfs_0p25_1hr/gfs" \o run_date
                    \o "/gfs_0p25_1hr_" \o run_hour \o "z"

\* the second render resolved another run than the first, whose dataset is cached
C9_Witness ==
    /\ renders = 2
    /\ pc = "shapefile"
    /\ \E e \in cache : e.key = <<history[1].date, history[1].hour>>
    /\ <<history[1].date, history[1].hour>> # <<run_date, run_hour>>
    /\ history[1].date # run_date

\* C10: a render reads the clock exactly once, date and cycle hour come from
\* that one effective instant, and the run announced in the sidebar and in the
\* map header is the pair passed to load_dataset, whose dataset is the one of
\* that pair's address.
C10_OneRunPerRender ==
    RunBound =>
        /\ Len(now_read) = 1
        /\ WellFormed(run_date, run_hour)
        /\ DayOfDate(run_date) = ((now_read[1] - 6 * 60) \div 1440) + 1
        /\ ParseNat(run_hour) = 6 * ((((now_read[1] - 6 * 60) % 1440) \div 60) \div 6)
        /\ Len(sidebar) = 21
        /\ SubSeq(sidebar, 1, 5) = "GFS: "
        /\ SubSeq(sidebar, 14, 18) = " jam "
        /\ SubSeq(sidebar, 21, 21) = "Z"
        /\ \A i \in 1..Len(load_calls) :
              load_calls[i] = <<SubSeq(sidebar, 6, 13), SubSeq(sidebar, 19, 20)>>
        /\ header # "" =>
              /\ SubSeq(header, 1, 4) = "GFS "
              /\ SubSeq(header, 5, 12) = SubSeq(sidebar, 6, 13)
              /\ SubSeq(header, 13, 13) = " "
              /\ SubSeq(header, 14, 15) = SubSeq(sidebar, 19, 20)
              /\ SubSeq(header, 16, 19) = "Z t+"
              /\ load_calls = << <<SubSeq(header, 5, 12), SubSeq(header, 14, 15)>> >>
        /\ load_result = "ok" =>
              /\ load_calls = << <<run_date, run_hour>> >>
              /\ SubSeq(ds.url, 51, 58) = SubSeq(sidebar, 6, 13)
              /\ SubSeq(ds.url, 73, 74) = SubSeq(sidebar, 19, 20)
              /\ ds.url = "https://nomads.ncep.noaa.gov/dods/gfs_0p25_1hr/gfs" \o run_date
                            \o "/gfs_0p25_1hr_" \o run_hour \o "z"

\* the map of the second render is displayed; the clock moved on into a later
\* 6-hour window during the render and the cache holds two runs
C10_Witness ==
    /\ pc = "done"
    /\ shown
    /\ renders = 2
    /\ clock > now_read[1]
    /\ clock - 6 * 60 >= RunInstant(run_date, run_hour) + 6 * 60
    /\ Cardinality(cache) = 2

====
